---- MODULE Spec2Model ----
(***************************************************************************)
(* Record dispatch pipeline of the Logger library: Logger (level gate,     *)
(* handler list, child cache, propagation to the parent) and the Handler   *)
(* base contract, modelled from Logger.js and handlers.js (Spec); the      *)
(* size-rotating and the timed rotating file handler over a log directory  *)
(* and asynchronous write streams (SpecRotating, SpecTimed).               *)
(***************************************************************************)
EXTENDS Integers, Sequences, FiniteSets, TLC

(* ---- bounds of the model ---- *)
MaxLoggers == 3
MaxHandlerList == 2
NumHandlers == 2
MaxOps == 3

(* ---- LogLevel (Logger.js) ---- *)
DEBUG == 0
INFO == 1
WARNING == 2
ERROR == 3
CRITICAL == 4
LogLevel == {DEBUG, INFO, WARNING, ERROR, CRITICAL}

(* ---- input sets ---- *)
Null == -1
Keys == {"a", "b"}
Handlers == 1..NumHandlers
SetLevelInputs == {ERROR}
LogLevelInputs == {DEBUG, INFO, ERROR}
FailureModes == {"ok", "throws", "async"}

(* JavaScript values passed as positional arguments or context *)
StrVal(s) == [kind |-> "str", str |-> s, fields |-> {}]
ObjVal(f) == [kind |-> "obj", str |-> "", fields |-> f]
NullVal == [kind |-> "null", str |-> "", fields |-> {}]
EmptyObj == ObjVal({})
CtxUser == ObjVal({<<"userId", "1">>})

(* a message argument: a string (its %s-split tokens) or another object *)
StrMsg(toks) == [isStr |-> TRUE, toks |-> toks]
ObjMsg == [isStr |-> FALSE, toks |-> <<"[object Error]">>]

(* the calls the model issues: message and positional arguments *)
CallInputs ==
    { [msg |-> StrMsg(<<"m">>), args |-> <<>>],
      [msg |-> StrMsg(<<"m ", "%s">>), args |-> <<StrVal("x"), CtxUser>>],
      [msg |-> ObjMsg, args |-> <<CtxUser>>] }
ExceptionInputs ==
    { [hasError |-> TRUE, args |-> <<>>],
      [hasError |-> FALSE, args |-> <<CtxUser>>],
      [hasError |-> TRUE, args |-> <<NullVal>>] }

VARIABLES
    loggers,       \* sequence of Logger objects; index = object identity
    handlerLevel,  \* Handler.level of every handler object (Null = unset)
    failure,       \* how a handler's emit behaves: ok, throws, async error
    pending,       \* handlers whose write stream has an 'error' event queued
    uncaught,      \* an 'error' event found no listener: uncaught exception
    pc,            \* the caller: idle, or holding the result of a call
    nOps,          \* configuration calls made so far
    last,          \* the last operation called and what it returned
    emits,         \* handler.emit invocations of the last log call, in order
    built,         \* LogRecord objects constructed by the last log call
    diag,          \* console.error lines of the last log call
    raised         \* the last call threw into its caller

VARIABLES
    disk,          \* the log directory: names -> files, and the files
    streams,       \* every fs.WriteStream created so far
    fh,            \* the file handler object under study
    wall,          \* what new Date() reads
    seen           \* what the last emit on fh did, and running counts

VARIABLES
    registry,      \* LoggerRegistry._loggers: name -> Logger (Null = absent)
    heap,          \* the handler and context objects allocated so far
    mem            \* the MemoryHandler under study

loggerVars == <<loggers, handlerLevel, failure, pending, uncaught, pc,
                nOps, last, emits, built, diag, raised>>
sinkVars == <<disk, streams, fh, wall, seen>>
libVars == <<registry, heap, mem>>
vars == <<loggers, handlerLevel, failure, pending, uncaught, pc,
          nOps, last, emits, built, diag, raised,
          disk, streams, fh, wall, seen, registry, heap, mem>>

(* ---- Logger.js ---- *)

\* new Logger(name), allocated as object id; array names the array object
\* held in this.handlers (the least id among the loggers that hold it)
NewLogger(id, nm) ==
    [name |-> nm, level |-> INFO, handlers |-> <<>>, array |-> id,
     propagate |-> TRUE, parent |-> Null,
     children |-> [k \in Keys |-> Null]]

\* a child named by its relative name alone
DottedNameRelative(pn, k) == <<k>>

\* `${this.name}.${name}`
DottedName(pn, k) == pn \o <<".">> \o <<k>>

\* String(value) as a template-replacement result
StringOf(v) ==
    IF v.kind = "str" THEN v.str
    ELSE IF v.kind = "null" THEN "null"
    ELSE "[object Object]"

\* message.replace(/%s/g, () => args.shift()): the formatted tokens and the
\* arguments left in the array
RECURSIVE Interpolate(_, _)
Interpolate(toks, args) ==
    IF toks = <<>> THEN [out |-> <<>>, rest |-> args]
    ELSE IF Head(toks) = "%s"
         THEN LET r == Interpolate(Tail(toks),
                                   IF args = <<>> THEN <<>> ELSE Tail(args))
              IN [out |-> <<IF args = <<>> THEN "undefined"
                            ELSE StringOf(Head(args))>> \o r.out,
                  rest |-> r.rest]
         ELSE LET r == Interpolate(Tail(toks), args)
              IN [out |-> <<Head(toks)>> \o r.out, rest |-> r.rest]

\* new LogRecord(name, level, message, timestamp, extra)
LogRecord(nm, lv, message, timestamp, extra) ==
    [name |-> nm, level |-> lv, message |-> message,
     timestamp |-> timestamp, extra |-> extra]

(* ---- handlers.js: Handler base contract ---- *)

\* Handler.filter(record)
filter(h, record) ==
    IF handlerLevel[h] = Null THEN TRUE
    ELSE record.level >= handlerLevel[h]

\* handler.emit(record) as seen by its caller: the invocation, and whether
\* it threw
emit(h, record) ==
    [handler |-> h, record |-> record, threw |-> failure[h] = "throws"]

\* Handler.handle(record): filter, then emit inside try/catch
handle(h, record) ==
    IF filter(h, record) THEN <<emit(h, record)>> ELSE <<>>

\* a loop without try/catch: the first emit that throws ends it
RECURSIVE SendToHandlersAbort(_, _)
SendToHandlersAbort(hs, record) ==
    IF hs = <<>> THEN <<>>
    ELSE IF emit(Head(hs), record).threw THEN <<emit(Head(hs), record)>>
    ELSE <<emit(Head(hs), record)>> \o SendToHandlersAbort(Tail(hs), record)

\* a loop that walks this.handlers from the last one added to the first
RECURSIVE SendToHandlersReversed(_, _)
SendToHandlersReversed(hs, record) ==
    IF hs = <<>> THEN <<>>
    ELSE SendToHandlersReversed(Tail(hs), record)
         \o <<emit(Head(hs), record)>>

\* the for-loop of Logger._log over this.handlers: every handler's emit is
\* called directly, inside try/catch
RECURSIVE SendToHandlers(_, _)
SendToHandlers(hs, record) ==
    IF hs = <<>> THEN <<>>
    ELSE <<emit(Head(hs), record)>> \o SendToHandlers(Tail(hs), record)

\* a gate that also drops a call at the threshold itself
GateInclusive(lv, threshold) == lv <= threshold

\* the level gate of Logger._log: level < this.level returns at once
Gate(lv, threshold) == lv < threshold

NoDispatch == [emits |-> <<>>, built |-> 0, raised |-> FALSE]

\* a dispatch that goes up whenever there is a parent
PropagatesAlways(l) == loggers[l].parent # Null

\* this.propagate && this.parent
Propagates(l) == loggers[l].propagate /\ loggers[l].parent # Null

\* Logger._log(level, message, ...args) on logger l; now is what new Date()
\* reads here and later what it reads in the ancestors, in milliseconds
\* since the call was made
RECURSIVE _log(_, _, _, _, _, _)
_log(l, lv, message, args, now, later) ==
    IF Gate(lv, loggers[l].level) THEN NoDispatch
    ELSE IF Len(args) > 0 /\ ~message.isStr
    THEN [emits |-> <<>>, built |-> 0, raised |-> TRUE]
    ELSE
      LET ip == IF Len(args) > 0 THEN Interpolate(message.toks, args)
                ELSE [out |-> message.toks, rest |-> args]
          record == LogRecord(loggers[l].name, lv, ip.out, now,
                              IF Len(ip.rest) > 0 THEN ip.rest[1]
                              ELSE EmptyObj)
          own == SendToHandlers(loggers[l].handlers, record)
          up == IF Propagates(l)
                THEN _log(loggers[l].parent, lv, message, ip.rest,
                          later, later)
                ELSE NoDispatch
      IN [emits |-> own \o up.emits, built |-> 1 + up.built,
          raised |-> up.raised]

\* the console.error line written for every emit that threw
DiagOf(es) == SelectSeq(es, LAMBDA e : e.threw)

\* file handlers whose stream was opened by an emit and will report an
\* asynchronous 'error' event
AsyncOpened(es) ==
    {es[i].handler : i \in {j \in 1..Len(es) : failure[es[j].handler] = "async"}}


\* obj[key] = val on a context object
SetField(obj, key, val) ==
    [obj EXCEPT !.fields = {f \in @ : f[1] # key} \cup {<<key, val>>}]

(* ---- bookkeeping of the call being observed ---- *)

Called(op, l, lv, call, ret) ==
    [op |-> op, logger |-> l, level |-> lv, call |-> call, ret |-> ret]

NoCall == [msg |-> StrMsg(<<>>), args |-> <<>>]

Idle == Called("none", Null, Null, NoCall, Null)

\* a call that dispatches nothing
Quiet ==
    /\ emits' = <<>>
    /\ built' = 0
    /\ diag' = <<>>
    /\ raised' = FALSE

Min(S) == CHOOSE x \in S : \A y \in S : x <= y
Range(f) == {f[i] : i \in DOMAIN f}

\* name every handlers array by the least logger that holds it
Canon(ls) ==
    [x \in DOMAIN ls |->
        [ls[x] EXCEPT !.array =
            Min({y \in DOMAIN ls : ls[y].array = ls[x].array})]]

\* an in-place change of the array held by logger l (push, splice) is seen
\* through every reference to that array
WriteArray(l, hs) ==
    [x \in DOMAIN loggers |->
        IF loggers[x].array = loggers[l].array
        THEN [loggers[x] EXCEPT !.handlers = hs]
        ELSE loggers[x]]

\* Array.prototype.indexOf
RECURSIVE indexOf(_, _)
indexOf(hs, h) ==
    IF hs = <<>> THEN -1
    ELSE IF Head(hs) = h THEN 0
    ELSE LET i == indexOf(Tail(hs), h) IN IF i = -1 THEN -1 ELSE i + 1

\* hs.splice(index, 1), index counted from 0
splice(hs, index) ==
    [i \in 1..(Len(hs) - 1) |-> IF i <= index THEN hs[i] ELSE hs[i + 1]]

(* ---- Init ---- *)

\* no file handler has been constructed
NoSink ==
    /\ disk = [dir |-> <<>>, ino |-> <<>>]
    /\ streams = <<>>
    /\ fh = [kind |-> "none"]
    /\ wall = 0
    /\ seen = [emitted |-> 0]

\* nothing is registered, no MemoryHandler has been constructed
NoLib ==
    /\ registry = <<>>
    /\ heap = <<>>
    /\ mem = [kind |-> "none"]

Init ==
    /\ NoSink
    /\ NoLib
    /\ loggers = <<NewLogger(1, <<"app">>)>>
    /\ handlerLevel = [h \in Handlers |-> Null]
    /\ failure \in {f \in [Handlers -> FailureModes] :
                        \A h \in Handlers : h > 1 => f[h] = "ok"}
    /\ pending = {}
    /\ uncaught = FALSE
    /\ pc = "idle"
    /\ nOps = 0
    /\ last = Idle
    /\ emits = <<>>
    /\ built = 0
    /\ diag = <<>>
    /\ raised = FALSE

(* ---- Logger operations ---- *)

\* a call is made by an idle caller of a live process
Call == ~uncaught /\ pc = "idle" /\ pc' = "returned"

Config == Call /\ nOps < MaxOps /\ nOps' = nOps + 1

\* Logger.setLevel(level)
setLevel(l, lv) ==
    /\ Config
    /\ loggers' = [loggers EXCEPT ![l].level = lv]
    /\ last' = Called("setLevel", l, lv, NoCall, Null)
    /\ Quiet
    /\ UNCHANGED <<handlerLevel, failure, pending, uncaught>>

\* Logger.addHandler(handler)
addHandler(l, h) ==
    /\ Config
    /\ Len(loggers[l].handlers) < MaxHandlerList
    /\ loggers' = WriteArray(l, Append(loggers[l].handlers, h))
    /\ last' = Called("addHandler", l, Null, NoCall, h)
    /\ Quiet
    /\ UNCHANGED <<handlerLevel, failure, pending, uncaught>>

\* Logger.removeHandler(handler)
removeHandler(l, h) ==
    /\ Config
    /\ LET index == indexOf(loggers[l].handlers, h)
       IN loggers' = IF index > -1
                     THEN WriteArray(l, splice(loggers[l].handlers, index))
                     ELSE loggers
    /\ last' = Called("removeHandler", l, Null, NoCall, h)
    /\ Quiet
    /\ UNCHANGED <<handlerLevel, failure, pending, uncaught>>

\* Logger.clearHandlers(): this.handlers = [] is a new array object
clearHandlers(l) ==
    /\ Config
    /\ loggers' = Canon([loggers EXCEPT ![l].handlers = <<>>,
                                        ![l].array = 0])
    /\ last' = Called("clearHandlers", l, Null, NoCall, Null)
    /\ Quiet
    /\ UNCHANGED <<handlerLevel, failure, pending, uncaught>>

\* logger.propagate = value (public field)
setPropagate(l, b) ==
    /\ Config
    /\ loggers' = [loggers EXCEPT ![l].propagate = b]
    /\ last' = Called("setPropagate", l, Null, NoCall, Null)
    /\ Quiet
    /\ UNCHANGED <<handlerLevel, failure, pending, uncaught>>

\* child.handlers = this.handlers: the child holds the parent's own array
CopyOfHandlersAlias(p, c) == loggers[p].array

\* the array object child.handlers refers to after getChild: [...this.handlers]
\* is a new array, owned by the child c
CopyOfHandlers(p, c) == c

\* a child that is linked to itself instead of the logger it was asked of
NewChildOwnParent(p, c, k) ==
    [NewLogger(c, DottedName(loggers[p].name, k)) EXCEPT
        !.parent = c,
        !.level = loggers[p].level,
        !.handlers = loggers[p].handlers,
        !.array = CopyOfHandlers(p, c)]

\* the child built by getChild on a cache miss
NewChild(p, c, k) ==
    [NewLogger(c, DottedName(loggers[p].name, k)) EXCEPT
        !.parent = p,
        !.level = loggers[p].level,
        !.handlers = loggers[p].handlers,
        !.array = CopyOfHandlers(p, c)]

\* a getChild that never finds its cache
CacheNever(p, k) == FALSE

\* this.children.has(name)
CacheHit(p, k) == loggers[p].children[k] # Null

\* Logger.getChild(name)
getChild(p, k) ==
    /\ Call
    /\ IF ~CacheHit(p, k)
       THEN /\ Len(loggers) < MaxLoggers
            /\ nOps < MaxOps
            /\ nOps' = nOps + 1
            /\ LET c == Len(loggers) + 1
               IN /\ loggers' = Canon(Append(
                        [loggers EXCEPT ![p].children[k] = c],
                        NewChild(p, c, k)))
                  /\ last' = Called("getChild", p, Null,
                                    [msg |-> StrMsg(<<k>>), args |-> <<>>], c)
       ELSE /\ UNCHANGED <<loggers, nOps>>
            /\ last' = Called("getChild", p, Null,
                              [msg |-> StrMsg(<<k>>), args |-> <<>>],
                              loggers[p].children[k])
    /\ Quiet
    /\ UNCHANGED <<handlerLevel, failure, pending, uncaught>>

\* what a dispatch leaves behind
Dispatched(r) ==
    /\ emits' = r.emits
    /\ built' = r.built
    /\ diag' = DiagOf(r.emits)
    /\ raised' = r.raised
    /\ pending' = pending \cup AsyncOpened(r.emits)

\* Logger.debug / info / error / critical(message, ...args)
log(l, lv, call, later) ==
    /\ Call
    /\ Dispatched(_log(l, lv, call.msg, call.args, 0, later))
    /\ last' = Called("log", l, lv, call, Null)
    /\ UNCHANGED <<loggers, handlerLevel, failure, uncaught, nOps>>

\* error.stack, or new Error().stack when no error is given
StackOf(hasError) == IF hasError THEN "stack of error" ELSE "stack of call site"

\* Logger.exception(message, error, ...args)
exception(l, hasError, args, later) ==
    /\ Call
    /\ LET extra == IF Len(args) > 0 THEN args[1] ELSE EmptyObj
           call == [msg |-> StrMsg(<<"m">>), args |-> args]
       IN IF extra.kind # "obj"
          THEN /\ emits' = <<>> /\ built' = 0 /\ diag' = <<>>
               /\ raised' = TRUE
               /\ UNCHANGED pending
               /\ last' = Called("exception", l, ERROR, call, Null)
          ELSE /\ Dispatched(
                     _log(l, ERROR, call.msg,
                          <<SetField(SetField(extra, "exc_info", "true"),
                                     "exc_text", StackOf(hasError))>>,
                          0, later))
               /\ last' = Called("exception", l, ERROR, call, Null)
    /\ UNCHANGED <<loggers, handlerLevel, failure, uncaught, nOps>>

(* ---- Handler operations and the environment ---- *)

\* Handler.setLevel(level)
HandlerSetLevel(h, lv) ==
    /\ Config
    /\ handlerLevel' = [handlerLevel EXCEPT ![h] = lv]
    /\ last' = Called("Handler.setLevel", Null, lv, NoCall, h)
    /\ Quiet
    /\ UNCHANGED <<loggers, failure, pending, uncaught>>

\* the write stream of a file handler emits 'error'; the library registers
\* no listener, so Node raises it as an uncaught exception
StreamError(h) ==
    /\ ~uncaught
    /\ pc = "idle"
    /\ h \in pending
    /\ pending' = pending \ {h}
    /\ uncaught' = TRUE
    /\ UNCHANGED <<loggers, handlerLevel, failure, pc, nOps,
                   last, emits, built, diag, raised>>

\* the caller takes the result and goes on
Return ==
    /\ pc = "returned"
    /\ pc' = "idle"
    /\ last' = Idle
    /\ Quiet
    /\ UNCHANGED <<loggers, handlerLevel, failure, pending, uncaught, nOps>>

\* what new Date() may read in an ancestor of l: the same millisecond or the
\* next
Laters(l) == IF loggers[l].parent = Null THEN {0} ELSE {0, 1}

Next ==
    \/ \E l \in DOMAIN loggers, lv \in SetLevelInputs : setLevel(l, lv)
          /\ UNCHANGED <<sinkVars, libVars>>
    \/ \E l \in DOMAIN loggers, h \in Handlers : addHandler(l, h)
          /\ UNCHANGED <<sinkVars, libVars>>
    \/ \E l \in DOMAIN loggers, h \in Handlers : removeHandler(l, h)
          /\ UNCHANGED <<sinkVars, libVars>>
    \/ \E l \in DOMAIN loggers : clearHandlers(l)
          /\ UNCHANGED <<sinkVars, libVars>>
    \/ \E l \in DOMAIN loggers : setPropagate(l, FALSE)
          /\ UNCHANGED <<sinkVars, libVars>>
    \/ \E l \in DOMAIN loggers, k \in Keys : getChild(l, k)
          /\ UNCHANGED <<sinkVars, libVars>>
    \/ \E l \in DOMAIN loggers, lv \in LogLevelInputs, call \in CallInputs :
          \E later \in Laters(l) : log(l, lv, call, later)
          /\ UNCHANGED <<sinkVars, libVars>>
    \/ \E l \in DOMAIN loggers, x \in ExceptionInputs :
          \E later \in Laters(l) : exception(l, x.hasError, x.args, later)
          /\ UNCHANGED <<sinkVars, libVars>>
    \/ \E h \in Handlers : HandlerSetLevel(h, ERROR)
          /\ UNCHANGED <<sinkVars, libVars>>
    \/ \E h \in Handlers : StreamError(h)
          /\ UNCHANGED <<sinkVars, libVars>>
    \/ Return /\ UNCHANGED <<sinkVars, libVars>>

Spec == Init /\ [][Next]_vars


(* ---- handlers.js: the file system under the file handlers ---- *)

\* MaxEmits bounds the records given to the file handler under study
MaxEmits == 4

\* file names in the log directory: the handler's path and path.<suffix>
Path == <<>>
Suffixed(x) == <<x>>

\* fs.existsSync(name)
existsSync(d, n) == n \in DOMAIN d.dir

\* fs.unlinkSync(name); the file itself stays for the handles open on it
unlinkSync(d, n) ==
    [d EXCEPT !.dir = [m \in DOMAIN d.dir \ {n} |-> d.dir[m]]]

\* fs.renameSync(src, dst): an existing dst is replaced
renameSync(d, src, dst) ==
    [d EXCEPT !.dir = [m \in (DOMAIN d.dir \ {src}) \cup {dst} |->
                          IF m = dst THEN d.dir[src] ELSE d.dir[m]]]

\* fs.statSync(name).mtime
mtime(d, n) == d.ino[d.dir[n]].mtime

\* open(path, 'a') as the stream's open request performs it: the file is
\* created when the name is absent
OpenAppend(d, now) ==
    IF existsSync(d, Path) THEN d
    ELSE [dir |-> [m \in DOMAIN d.dir \cup {Path} |->
                      IF m = Path THEN Len(d.ino) + 1 ELSE d.dir[m]],
          ino |-> Append(d.ino, [data |-> <<>>, mtime |-> now])]

\* open(path, 'w'): the file is created, or cut to length 0 when the name
\* exists
OpenTruncate(d, now) ==
    IF existsSync(d, Path)
    THEN [d EXCEPT !.ino[d.dir[Path]] = [data |-> <<>>, mtime |-> now]]
    ELSE OpenAppend(d, now)

\* open(path, flags) for the flags a handler's mode can name
Open(d, flags, now) ==
    IF flags = "w" THEN OpenTruncate(d, now) ELSE OpenAppend(d, now)

\* the bytes of a file, each marked with the record it belongs to
RECURSIVE Bytes(_)
Bytes(data) ==
    IF data = <<>> THEN <<>>
    ELSE [i \in 1..Head(data).size |-> [id |-> Head(data).id, size |-> 1]]
         \o Bytes(Tail(data))

\* write(fd, chunk) at the position pos of a descriptor opened without
\* O_APPEND: bytes there are replaced, a gap before pos reads as zeros (id 0)
WriteAt(data, pos, c) ==
    LET old == Bytes(data)
        end == IF pos + c.size > Len(old) THEN pos + c.size ELSE Len(old)
    IN [i \in 1..end |->
           IF i > pos /\ i <= pos + c.size THEN [id |-> c.id, size |-> 1]
           ELSE IF i <= Len(old) THEN old[i]
           ELSE [id |-> 0, size |-> 1]]

\* write(fd, chunk) on a descriptor opened with the given flags
Write(data, flags, pos, c) ==
    IF flags = "w" THEN WriteAt(data, pos, c) ELSE Append(data, c)

\* fs.createWriteStream(path, {flags, encoding}): the open is queued, fd is
\* not known yet; emitted counts the bytes handed to write()
createWriteStream ==
    [fd |-> 0, queue |-> <<>>, bytesWritten |-> 0, ended |-> FALSE,
     emitted |-> 0]

(* ---- handlers.js: FileHandler ---- *)

\* FileHandler._openFile(); the log directory exists
_openFile(st) ==
    IF st.fh.file = 0
    THEN [st EXCEPT !.streams = Append(@, createWriteStream),
                    !.fh.file = Len(st.streams) + 1]
    ELSE st

\* FileHandler.emit(record): chunk is format(record) + '\n'
FileHandlerEmit(st, chunk) ==
    LET o == _openFile(st)
    IN [o EXCEPT !.streams[o.fh.file].queue = Append(@, chunk),
                 !.streams[o.fh.file].emitted = @ + chunk.size]

\* if (this._file) { this._file.end(); this._file = null; }
EndFile(st) ==
    IF st.fh.file # 0
    THEN [st EXCEPT !.streams[st.fh.file].ended = TRUE, !.fh.file = 0]
    ELSE st

\* the directory entries that start with basename + '.'
_getMatchingFiles(d) == {n \in DOMAIN d.dir : n # Path}

\* a retention step that removes the most recently modified files
NewestFiles(d, files, keep) ==
    IF Cardinality(files) > keep
    THEN {R \in SUBSET files :
             /\ Cardinality(R) = Cardinality(files) - keep
             /\ \A r \in R, k \in files \ R : mtime(d, r) >= mtime(d, k)}
    ELSE {{}}

\* what files.slice(0, files.length - keep) can hold after the sort by mtime
\* (oldest first); files with equal mtime come in the directory's order
OldestFiles(d, files, keep) ==
    IF Cardinality(files) > keep
    THEN {R \in SUBSET files :
             /\ Cardinality(R) = Cardinality(files) - keep
             /\ \A r \in R, k \in files \ R : mtime(d, r) <= mtime(d, k)}
    ELSE {{}}

\* the loop of unlinkSync calls over the files chosen
RemoveAll(d, R) == [d EXCEPT !.dir = [m \in DOMAIN d.dir \ R |-> d.dir[m]]]

\* the state after the retention step removed R, with what it saw
Pruned(st, d, R) ==
    [st EXCEPT !.disk = RemoveAll(d, R),
               !.seen.removed = {mtime(d, n) : n \in R},
               !.seen.kept = {mtime(d, n) : n \in _getMatchingFiles(d) \ R}]

(* ---- handlers.js: RotatingFileHandler ---- *)

\* sizes in bytes of format(record) + '\n', and constructor arguments
RecordSizes == {1, 2}
MaxBytesInputs == {2, 3}
BackupCountInputs == {0, 1, 2}
MaxFilesInputs == {1, 3}

\* RotatingFileHandler._cleanupOldFiles(); unlinkSync does not fail here
_cleanupOldFiles(st) ==
    {Pruned(st, st.disk, R) :
        R \in OldestFiles(st.disk, _getMatchingFiles(st.disk),
                          st.fh.maxFiles)}

\* for (let i = this.backupCount - 1; i > 0; i--): path.i becomes path.(i+1)
RECURSIVE ShiftBackups(_, _)
ShiftBackups(d, i) ==
    IF i <= 0 THEN d
    ELSE LET src == Suffixed(i)
             dst == Suffixed(i + 1)
             freed == IF existsSync(d, dst) THEN unlinkSync(d, dst) ELSE d
         IN ShiftBackups(IF existsSync(d, src)
                         THEN renameSync(freed, src, dst) ELSE d,
                         i - 1)

\* a rotation that moves the current file to path.1 and leaves the older
\* backups where they are
RotateNoShift(st) ==
    LET e == EndFile(st)
        renamed == IF existsSync(e.disk, Path)
                   THEN renameSync(e.disk, Path, Suffixed(1))
                   ELSE e.disk
    IN _cleanupOldFiles([e EXCEPT !.disk = renamed])

\* RotatingFileHandler.rotate()
RotatingRotate(st) ==
    LET e == EndFile(st)
        shifted == ShiftBackups(e.disk, e.fh.backupCount - 1)
        renamed == IF existsSync(shifted, Path)
                   THEN renameSync(shifted, Path, Suffixed(1))
                   ELSE shifted
    IN _cleanupOldFiles([e EXCEPT !.disk = renamed])

\* this._file && this._file.bytesWritten >= this.maxBytes
ShouldRollover(st) ==
    /\ st.fh.file # 0
    /\ st.streams[st.fh.file].bytesWritten >= st.fh.maxBytes

\* an emit that writes the record before it rotates
RotatingEmitWriteFirst(st, chunk) ==
    IF ShouldRollover(st) THEN RotatingRotate(FileHandlerEmit(st, chunk))
    ELSE {FileHandlerEmit(st, chunk)}

\* RotatingFileHandler.emit(record): the states it can leave behind
RotatingEmit(st, chunk) ==
    {FileHandlerEmit(p, chunk) :
        p \in IF ShouldRollover(st) THEN RotatingRotate(st) ELSE {st}}

(* ---- the file handler under study and the event loop ---- *)

Here == [disk |-> disk, streams |-> streams, fh |-> fh, seen |-> seen]

Becomes(st) ==
    /\ disk' = st.disk
    /\ streams' = st.streams
    /\ fh' = st.fh
    /\ seen' = st.seen

\* the bytes handed to the current stream so far
EmittedToCurrent(st) ==
    IF st.fh.file = 0 THEN 0 ELSE st.streams[st.fh.file].emitted

\* the record about to be emitted is numbered, and whether its emit rotates
Noted(st, rotates) ==
    [st EXCEPT !.seen.emitted = @ + 1,
               !.seen.rot = IF rotates THEN @ \cup {st.seen.emitted + 1}
                            ELSE @,
               !.seen.rotated = rotates,
               !.seen.prev = EmittedToCurrent(st),
               !.seen.removed = {},
               !.seen.kept = {}]

NothingSeen ==
    [emitted |-> 0, rot |-> {}, rotated |-> FALSE, prev |-> 0,
     removed |-> {}, kept |-> {}]

\* the loggers play no part while one file handler is driven directly
DispatchAtRest ==
    /\ handlerLevel = [h \in Handlers |-> Null]
    /\ failure = [h \in Handlers |-> "ok"]
    /\ pending = {}
    /\ uncaught = FALSE
    /\ pc = "idle"
    /\ nOps = 0
    /\ emits = <<>>
    /\ built = 0
    /\ diag = <<>>
    /\ raised = FALSE

LoggersAtRest ==
    /\ loggers = <<NewLogger(1, <<"app">>)>>
    /\ last = Idle
    /\ DispatchAtRest

\* new RotatingFileHandler(path, maxBytes, backupCount, maxFiles) in an
\* empty log directory
InitRotating ==
    /\ LoggersAtRest
    /\ NoLib
    /\ disk = [dir |-> <<>>, ino |-> <<>>]
    /\ streams = <<>>
    /\ fh \in {[kind |-> "rotating", maxBytes |-> b, backupCount |-> n,
                maxFiles |-> m, mode |-> "a", file |-> 0] :
                 b \in MaxBytesInputs, n \in BackupCountInputs,
                 m \in MaxFilesInputs}
    /\ wall = 0
    /\ seen = NothingSeen

\* handler.emit(record) on the rotating handler, record of the given size
RotatingHandlerEmit(size) ==
    /\ seen.emitted < MaxEmits
    /\ \E st \in RotatingEmit(Noted(Here, ShouldRollover(Here)),
                              [id |-> seen.emitted + 1, size |-> size]) :
          Becomes(st)
    /\ UNCHANGED wall
    /\ UNCHANGED <<loggerVars, libVars>>

\* the open request of stream s completes
StreamOpen(s) ==
    /\ streams[s].fd = 0
    /\ disk' = Open(disk, fh.mode, wall)
    /\ streams' = [streams EXCEPT ![s].fd = disk'.dir[Path]]
    /\ UNCHANGED <<fh, wall, seen>>
    /\ UNCHANGED <<loggerVars, libVars>>

\* the oldest queued chunk of stream s reaches its file at instant now
StreamWrite(s, now) ==
    /\ streams[s].fd # 0
    /\ streams[s].queue # <<>>
    /\ wall' = now
    /\ LET c == Head(streams[s].queue)
       IN /\ disk' = [disk EXCEPT
                         !.ino[streams[s].fd].data =
                            Write(@, fh.mode, streams[s].bytesWritten, c),
                         !.ino[streams[s].fd].mtime = wall']
          /\ streams' = [streams EXCEPT
                            ![s].queue = Tail(@),
                            ![s].bytesWritten = @ + c.size]
    /\ UNCHANGED <<fh, seen>>
    /\ UNCHANGED <<loggerVars, libVars>>

NextRotating ==
    \/ \E size \in RecordSizes : RotatingHandlerEmit(size)
    \/ \E s \in DOMAIN streams : StreamOpen(s)
    \/ \E s \in DOMAIN streams, now \in {wall, wall + 1} : StreamWrite(s, now)

SpecRotating == InitRotating /\ [][NextRotating]_vars

(* ---- handlers.js: a log directory shared with another sink ---- *)

\* the current file of another sink, named path.audit: a name that starts
\* with this sink's file name and a dot and that no rotation produces
OtherSinkFile == Suffixed(-1)

\* new RotatingFileHandler(path, ...) in a directory where the other sink
\* has written its file
InitShared ==
    /\ LoggersAtRest
    /\ NoLib
    /\ disk = [dir |-> [n \in {OtherSinkFile} |-> 1],
               ino |-> <<[data |-> <<[id |-> 0, size |-> 1]>>,
                          mtime |-> 0]>>]
    /\ streams = <<>>
    /\ fh \in {[kind |-> "rotating", maxBytes |-> b, backupCount |-> n,
                maxFiles |-> m, mode |-> "a", file |-> 0] :
                 b \in MaxBytesInputs, n \in BackupCountInputs,
                 m \in MaxFilesInputs}
    /\ wall = 0
    /\ seen = NothingSeen

SpecShared == InitShared /\ [][NextRotating]_vars

(* ---- handlers.js: a rotation whose renameSync or unlinkSync throws ---- *)

\* RotatingFileHandler.rotate() left by an exception: the stream is ended
\* and forgotten, and the directory is as the calls before the one that
\* threw have made it. The call that throws is the first of the shift loop,
\* the loop's renameSync after its unlinkSync, or the renameSync of the
\* current file
FailedRotate(st) ==
    LET e == EndFile(st)
        n == e.fh.backupCount
        loops == n >= 2 /\ existsSync(e.disk, Suffixed(n - 1))
    IN {e : x \in {1} \cap {IF loops THEN 1 ELSE 0}}
       \cup {[e EXCEPT !.disk = unlinkSync(e.disk, Suffixed(n))] :
               x \in {1} \cap {IF loops /\ existsSync(e.disk, Suffixed(n))
                               THEN 1 ELSE 0}}
       \cup {[e EXCEPT !.disk = ShiftBackups(e.disk, n - 1)] :
               x \in {1} \cap {IF existsSync(e.disk, Path) THEN 1 ELSE 0}}

\* handler.emit(record) inside the try/catch of Logger._log when rotate()
\* throws: super.emit is not reached, console.error reports the error and
\* the log call returns normally
RotatingHandlerEmitFails(size) ==
    /\ seen.emitted < MaxEmits
    /\ ShouldRollover(Here)
    /\ \E st \in FailedRotate(Noted(Here, FALSE)) : Becomes(st)
    /\ diag' = Append(diag, [handler |-> 1,
                             record |-> [id |-> seen.emitted + 1,
                                         size |-> size],
                             threw |-> TRUE])
    /\ UNCHANGED wall
    /\ UNCHANGED <<loggers, handlerLevel, failure, pending, uncaught, pc,
                   nOps, last, emits, built, raised>>
    /\ UNCHANGED libVars

NextRotatingFaulty ==
    \/ NextRotating
    \/ \E size \in RecordSizes : RotatingHandlerEmitFails(size)

SpecRotatingFaulty == InitRotating /\ [][NextRotatingFaulty]_vars

(* ---- handlers.js: a FileHandler that is closed and written again ---- *)

\* new FileHandler(filename, mode)
ModeInputs == {"a", "w"}

InitFile ==
    /\ LoggersAtRest
    /\ NoLib
    /\ disk = [dir |-> <<>>, ino |-> <<>>]
    /\ streams = <<>>
    /\ wall = 0
    /\ fh \in {[kind |-> "file", mode |-> m, file |-> 0] : m \in ModeInputs}
    /\ seen = [emitted |-> 0, closed |-> FALSE, reopened |-> FALSE]

\* a log call reaches handler.emit(record) of the FileHandler
FileEmit ==
    /\ seen.emitted < MaxEmits
    /\ Becomes(FileHandlerEmit(
          [Here EXCEPT !.seen.emitted = @ + 1,
                       !.seen.reopened = @ \/ seen.closed],
          [id |-> seen.emitted + 1, size |-> 1]))
    /\ UNCHANGED wall
    /\ UNCHANGED <<loggerVars, libVars>>

\* FileHandler.close()
FileClose ==
    /\ Becomes(EndFile([Here EXCEPT !.seen.closed = TRUE]))
    /\ UNCHANGED wall
    /\ UNCHANGED <<loggerVars, libVars>>

NextFile ==
    \/ FileEmit
    \/ FileClose
    \/ \E s \in DOMAIN streams : StreamOpen(s)
    \/ \E s \in DOMAIN streams : StreamWrite(s, wall)

SpecFile == InitFile /\ [][NextFile]_vars

(* ---- handlers.js: TimedRotatingFileHandler ---- *)

\* milliseconds
MinuteMs == 60 * 1000
HourMs == 3600 * 1000
DayMs == 24 * HourMs

\* the instants new Date() and record.timestamp take, in milliseconds
Instants ==
    {0, MinuteMs - 1, MinuteMs, HourMs, DayMs, 2 * DayMs - 1, 2 * DayMs}
WhenInputs == {"midnight", "hour", "minute"}
IntervalInputs == {1, 2}

\* constructor arguments <<backupCount, maxFiles>>
RetentionInputs == {<<0, 1>>, <<1, 3>>, <<2, 1>>}

\* MaxTimedEmits bounds the records given to the timed handler
MaxTimedEmits == 3

\* date.toDateString(): the local calendar date (zone offset 0, no DST)
toDateString(t) == t \div DayMs

\* _formatTimestamp(date): YYYYMMDD_HHMMSS, the instant cut to the second
_formatTimestamp(t) == t \div 1000

\* a threshold test that needs more than the interval to have passed
shouldRotateStrict(h, timestamp) ==
    IF h.when = "midnight"
    THEN toDateString(timestamp) # toDateString(h.lastRotation)
    ELSE IF h.when = "hour"
    THEN (timestamp - h.lastRotation) > HourMs * h.interval
    ELSE IF h.when = "minute"
    THEN (timestamp - h.lastRotation) > MinuteMs * h.interval
    ELSE FALSE

\* TimedRotatingFileHandler.shouldRotate(timestamp)
shouldRotate(h, timestamp) ==
    IF h.when = "midnight"
    THEN toDateString(timestamp) # toDateString(h.lastRotation)
    ELSE IF h.when = "hour"
    THEN (timestamp - h.lastRotation) >= HourMs * h.interval
    ELSE IF h.when = "minute"
    THEN (timestamp - h.lastRotation) >= MinuteMs * h.interval
    ELSE FALSE

\* a retention step that keeps one backup more than it may
RetentionLoose(backupCount, maxFiles) == Min({backupCount, maxFiles}) + 1

\* const maxToKeep = Math.min(this.backupCount, this.maxFiles)
maxToKeep(backupCount, maxFiles) == Min({backupCount, maxFiles})

\* TimedRotatingFileHandler._removeOldBackups()
_removeOldBackups(st) ==
    {Pruned(st, st.disk, R) :
        R \in OldestFiles(st.disk, _getMatchingFiles(st.disk),
                          maxToKeep(st.fh.backupCount, st.fh.maxFiles))}

\* TimedRotatingFileHandler.rotate(); now is what new Date() reads
TimedRotate(st, now) ==
    LET e == EndFile(st)
        backupName == Suffixed(_formatTimestamp(e.fh.lastRotation))
        renamed == IF existsSync(e.disk, Path)
                   THEN renameSync(e.disk, Path, backupName)
                   ELSE e.disk
    IN {[p EXCEPT !.fh.lastRotation = now] :
           p \in _removeOldBackups([e EXCEPT !.disk = renamed])}

\* TimedRotatingFileHandler.emit(record)
TimedEmit(st, chunk, timestamp, now) ==
    {FileHandlerEmit(p, chunk) :
        p \in IF shouldRotate(st.fh, timestamp) THEN TimedRotate(st, now)
              ELSE {st}}

\* what the timed handler's emit notes besides Noted
NotedTimed(st, timestamp) ==
    [Noted(st, shouldRotate(st.fh, timestamp)) EXCEPT
        !.seen.ts = timestamp]

\* new TimedRotatingFileHandler(path, when, interval, backupCount,
\* maxFiles) in an empty log directory; lastRotation = new Date()
InitTimed ==
    /\ LoggersAtRest
    /\ NoLib
    /\ disk = [dir |-> <<>>, ino |-> <<>>]
    /\ streams = <<>>
    /\ wall = 0
    /\ fh \in {[kind |-> "timed", when |-> w, interval |-> i,
                backupCount |-> r[1], maxFiles |-> r[2],
                lastRotation |-> 0, mode |-> "a", file |-> 0] :
                 w \in WhenInputs, i \in IntervalInputs,
                 r \in RetentionInputs}
    /\ seen = [emitted |-> 0, rot |-> {}, rotated |-> FALSE, prev |-> 0,
               removed |-> {}, kept |-> {}, ts |-> Null]

\* handler.emit(record) on the timed handler; the record was built at
\* timestamp: not after the present instant, not before the last record
TimedHandlerEmit(timestamp) ==
    /\ seen.emitted < MaxTimedEmits
    /\ timestamp <= wall
    /\ timestamp >= seen.ts
    /\ \E st \in TimedEmit(NotedTimed(Here, timestamp),
                           [id |-> seen.emitted + 1, size |-> 1],
                           timestamp, wall) :
          Becomes(st)
    /\ UNCHANGED wall
    /\ UNCHANGED <<loggerVars, libVars>>

\* time passes up to the next instant
Tick ==
    /\ \E t \in Instants : t > wall
    /\ wall' = Min({t \in Instants : t > wall})
    /\ UNCHANGED <<disk, streams, fh, seen>>
    /\ UNCHANGED <<loggerVars, libVars>>

NextTimed ==
    \/ \E timestamp \in Instants : TimedHandlerEmit(timestamp)
    \/ \E s \in DOMAIN streams : StreamOpen(s)
    \/ \E s \in DOMAIN streams : StreamWrite(s, wall)
    \/ Tick

SpecTimed == InitTimed /\ [][NextTimed]_vars

(* ---- registry.js, config.js, index.js: the logger registry ---- *)

\* MaxRegistered bounds the Logger objects the setup functions construct
MaxRegistered == 2

LoggerNames == {"app", "db"}
LevelNames == {"DEBUG", "INFO", "WARNING", "ERROR", "CRITICAL"}

\* createLogger's options: level, console, json, rotating (file = null)
OptionInputs ==
    [level : LevelNames, console : BOOLEAN, json : BOOLEAN,
     rotating : BOOLEAN]

\* the levelMap object of createLogger and quickLogger
levelMap ==
    [n \in LevelNames |->
        CASE n = "DEBUG" -> DEBUG [] n = "INFO" -> INFO
          [] n = "WARNING" -> WARNING [] n = "ERROR" -> ERROR
          [] n = "CRITICAL" -> CRITICAL]

\* levelMap[level.toUpperCase()] || LogLevel.INFO: the number 0 is falsy
NumericLevel(n) == IF levelMap[n] = 0 THEN INFO ELSE levelMap[n]

\* new ConsoleHandler(), new FileHandler(file), new RotatingFileHandler(..)
NewHandler(class) == [class |-> class, file |-> FALSE]

\* typeof handler.close === 'function'
HasClose(h) == h.class \in {"FileHandler", "RotatingFileHandler"}

\* what a registry call leaves the other variables at
RegistryFrame ==
    UNCHANGED <<handlerLevel, failure, pending, uncaught, pc, nOps, emits,
                built, diag, raised, disk, streams, fh, wall, mem>>

\* the caller gets ret from op(name, level)
Returned(op, name, level, ret, created) ==
    /\ last' = [op |-> op, name |-> name, level |-> level, ret |-> ret,
                created |-> created]
    /\ seen' = IF ret = Null THEN seen
               ELSE [seen EXCEPT !.issued[name] = @ \cup {ret}]

\* new Logger(name); setLevel(level); addHandler for each class;
\* registerLogger(name, logger); return logger
Setup(op, name, levelName, level, classes) ==
    LET id == Len(loggers) + 1
        hs == [i \in 1..Len(classes) |-> Len(heap) + i]
    IN /\ Len(loggers) < MaxRegistered
       /\ loggers' = Append(loggers,
             [NewLogger(id, <<name>>) EXCEPT !.level = level,
                                            !.handlers = hs])
       /\ heap' = heap \o [i \in 1..Len(classes) |-> NewHandler(classes[i])]
       /\ registry' = [registry EXCEPT ![name] = id]
       /\ Returned(op, name, levelName, id, TRUE)
       /\ RegistryFrame

\* the handlers of setupBasicLogger: _absLogPath(null, name) is a path, so
\* the file handler is always added
BasicHandlers(console) ==
    (IF console THEN <<"ConsoleHandler">> ELSE <<>>) \o <<"FileHandler">>

setupBasicLogger(op, name, levelName, level, console) ==
    Setup(op, name, levelName, level, BasicHandlers(console))

setupJsonLogger(op, name, levelName) ==
    Setup(op, name, levelName, INFO, <<"FileHandler">>)

setupRotatingLogger(op, name, levelName) ==
    Setup(op, name, levelName, INFO, <<"RotatingFileHandler">>)

\* createLogger(name, options)
createLogger(name, o) ==
    IF registry[name] # Null
    THEN /\ Returned("createLogger", name, o.level, registry[name], FALSE)
         /\ UNCHANGED <<loggers, heap, registry>>
         /\ RegistryFrame
    ELSE IF o.json THEN setupJsonLogger("createLogger", name, o.level)
    ELSE IF o.rotating
    THEN setupRotatingLogger("createLogger", name, o.level)
    ELSE setupBasicLogger("createLogger", name, o.level,
                          NumericLevel(o.level), o.console)

\* quickLogger(name, level)
quickLogger(name, levelName) ==
    setupBasicLogger("quickLogger", name, levelName,
                     NumericLevel(levelName), TRUE)

\* getLogger(name): this._loggers.get(name) || null
getLogger(name) ==
    /\ Returned("getLogger", name, Null, registry[name], FALSE)
    /\ UNCHANGED <<loggers, heap, registry>>
    /\ RegistryFrame

\* logger.critical(..) on a Logger the caller holds: every file handler of
\* it opens its file
critical(x) ==
    /\ heap' = [h \in DOMAIN heap |->
                   IF h \in Range(loggers[x].handlers) /\ HasClose(heap[h])
                   THEN [heap[h] EXCEPT !.file = TRUE] ELSE heap[h]]
    /\ last' = [op |-> "critical", name |-> loggers[x].name[1],
                level |-> Null, ret |-> Null, created |-> FALSE]
    /\ UNCHANGED <<loggers, registry, seen>>
    /\ RegistryFrame

\* LoggerRegistry.closeLogger over the names given: handler.close() on the
\* handlers that have it, then this._loggers.delete(name)
CloseNames(names) ==
    LET closing == UNION {Range(loggers[registry[n]].handlers) :
                             n \in {m \in names : registry[m] # Null}}
    IN /\ heap' = [h \in DOMAIN heap |->
                      IF h \in closing /\ HasClose(heap[h])
                      THEN [heap[h] EXCEPT !.file = FALSE] ELSE heap[h]]
       /\ registry' = [n \in LoggerNames |->
                          IF n \in names THEN Null ELSE registry[n]]
       /\ seen' = [seen EXCEPT !.issued =
                      [n \in LoggerNames |->
                          IF n \in names THEN {} ELSE seen.issued[n]]]
       /\ UNCHANGED loggers
       /\ RegistryFrame

closeLogger(name) ==
    /\ CloseNames({name})
    /\ last' = [op |-> "closeLogger", name |-> name, level |-> Null,
                ret |-> registry[name] # Null, created |-> FALSE]

\* closeAllLoggers(): closeLogger for every key of the map
closeAllLoggers ==
    /\ CloseNames(LoggerNames)
    /\ last' = [op |-> "closeAllLoggers", name |-> "", level |-> Null,
                ret |-> Null, created |-> FALSE]

InitRegistry ==
    /\ DispatchAtRest
    /\ disk = [dir |-> <<>>, ino |-> <<>>]
    /\ streams = <<>>
    /\ fh = [kind |-> "none"]
    /\ wall = 0
    /\ seen = [issued |-> [n \in LoggerNames |-> {}]]
    /\ loggers = <<>>
    /\ last = [op |-> "none", name |-> "", level |-> Null, ret |-> Null,
               created |-> FALSE]
    /\ registry = [n \in LoggerNames |-> Null]
    /\ heap = <<>>
    /\ mem = [kind |-> "none"]

NextRegistry ==
    \/ \E name \in LoggerNames, o \in OptionInputs : createLogger(name, o)
    \/ \E name \in LoggerNames, console \in BOOLEAN :
          setupBasicLogger("setupBasicLogger", name, "INFO", INFO, console)
    \/ \E name \in LoggerNames :
          setupJsonLogger("setupJsonLogger", name, "INFO")
    \/ \E name \in LoggerNames :
          setupRotatingLogger("setupRotatingLogger", name, "INFO")
    \/ \E name \in LoggerNames, n \in LevelNames : quickLogger(name, n)
    \/ \E name \in LoggerNames : getLogger(name)
    \/ \E x \in DOMAIN loggers : critical(x)
    \/ \E name \in LoggerNames : closeLogger(name)
    \/ closeAllLoggers

SpecRegistry == InitRegistry /\ [][NextRegistry]_vars

(* ---- MemoryHandler, the context a LogRecord refers to, JSONFormatter ---- *)

\* records built, and context objects the caller holds, in one run
MaxRecords == 2
NumObjects == 1

\* new MemoryHandler(capacity)
CapacityInputs == {1, 2}

\* a context value is <<type, text>>: a string, a number or a boolean
ContextInputs ==
    { {},
      {<<"userId", <<"num", "1">>>>, <<"ok", <<"bool", "true">>>>},
      {<<"level", <<"str", "x">>>>} }

\* Array.prototype.pop: drops the newest element
pop(buffer) == SubSeq(buffer, 1, Len(buffer) - 1)

\* Array.prototype.shift: drops the oldest element
shift(buffer) == Tail(buffer)

\* MemoryHandler.emit(record)
MemoryHandlerEmit(m, record) ==
    LET pushed == Append(m.buffer, record)
    IN [m EXCEPT !.buffer = IF Len(pushed) > m.capacity
                            THEN shift(pushed) ELSE pushed]

\* the context of a record: record.extra is a reference, either to an
\* object the caller holds (ref) or to one nobody else holds (own)
ExtraOf(record, objects) ==
    IF record.extra.ref = 0 THEN record.extra.own
    ELSE objects[record.extra.ref].fields

\* getLogLevelName(level)
getLogLevelName(level) == CHOOSE n \in LevelNames : levelMap[n] = level

\* Date.prototype.toISOString for the instants of a run
toISOString(t) ==
    <<"1970-01-01T00:00:00.000Z", "1970-01-01T00:00:00.001Z",
      "1970-01-01T00:00:00.002Z", "1970-01-01T00:00:00.003Z",
      "1970-01-01T00:00:00.004Z">>[t + 1]

\* data[key] = value on the object JSONFormatter.format builds
Assign(data, key, value) ==
    {f \in data : f[1] # key} \cup {<<key, value>>}

RECURSIVE AssignAll(_, _)
AssignAll(data, entries) ==
    IF entries = {} THEN data
    ELSE LET e == CHOOSE x \in entries : TRUE
         IN AssignAll(Assign(data, e[1], e[2]), entries \ {e})

\* JSON.stringify of a value: the characters of its JSON text
stringify(v) == IF v[1] = "str" THEN <<"\"", v[2], "\"">> ELSE <<v[2]>>

\* JSON.parse of the JSON text of a value
JSONparse(t) ==
    IF Len(t) = 3 THEN <<"str", t[2]>>
    ELSE IF t[1] \in {"true", "false"} THEN <<"bool", t[1]>>
    ELSE <<"num", t[1]>>

\* JSONFormatter.format(record): the members of the JSON line
format(record, objects) ==
    LET extra == ExtraOf(record, objects)
        base == {<<"level", <<"str", getLogLevelName(record.level)>>>>,
                 <<"message", <<"str", record.message>>>>,
                 <<"timestamp", <<"str", toISOString(record.timestamp)>>>>,
                 <<"logger", <<"str", record.name[1]>>>>}
        exc == {f \in extra : f[1] = "exc_text"}
        data == IF exc = {} THEN base
                ELSE Assign(base, "exception",
                            (CHOOSE f \in exc : TRUE)[2])
        rest == {f \in extra : f[1] \notin {"exc_text", "exc_info"}}
    IN {<<f[1], stringify(f[2])>> : f \in AssignAll(data, rest)}

NoResult == [op |-> "none", arg |-> 0, array |-> "none", items |-> <<>>,
             line |-> {}]

\* what the memory specification leaves alone
MemoryFrame ==
    /\ UNCHANGED <<loggers, handlerLevel, failure, pending, uncaught, pc,
                   nOps, emits, built, diag, raised>>
    /\ UNCHANGED <<disk, streams, fh, registry>>

\* Logger._log(level, message, extra) of the logger whose one handler is
\* the MemoryHandler; wall is what new Date() reads
MemoryLog(lv, message, extra) ==
    IF Gate(lv, loggers[1].level)
    THEN UNCHANGED <<mem, seen, wall>>
    ELSE LET record == LogRecord(loggers[1].name, lv, message, wall, extra)
         IN /\ wall < MaxRecords
            /\ mem' = MemoryHandlerEmit(mem, record)
            /\ seen' = [since |-> Append(seen.since, record)]
            /\ wall' = wall + 1

\* the reference _log stores for the first argument: args[0], or a new {}
Reference(arg, fields) == [ref |-> arg, own |-> fields]

\* logger.debug / logger.info(message, context): arg = 0 is a call without
\* context, arg > 0 passes the caller's object arg
MemoryInfo(lv, arg) ==
    /\ MemoryLog(lv, "m", Reference(arg, {}))
    /\ last' = [NoResult EXCEPT !.op = "log", !.arg = arg]
    /\ UNCHANGED heap
    /\ MemoryFrame

\* logger.exception(message, error, context): exc_info and exc_text are
\* assigned on the caller's own object before _log is called
MemoryException(hasError, arg) ==
    /\ LET tagged(obj) ==
              SetField(SetField(obj, "exc_info", <<"bool", "true">>),
                       "exc_text", <<"str", StackOf(hasError)>>)
       IN IF arg = 0
          THEN /\ MemoryLog(ERROR, "m",
                            Reference(0, tagged(EmptyObj).fields))
               /\ UNCHANGED heap
          ELSE /\ heap' = [heap EXCEPT ![arg] = tagged(@)]
               /\ MemoryLog(ERROR, "m", Reference(arg, {}))
    /\ last' = [NoResult EXCEPT !.op = "exception", !.arg = arg]
    /\ MemoryFrame

\* MemoryHandler.clear()
clear ==
    /\ mem' = [mem EXCEPT !.buffer = <<>>]
    /\ seen' = [since |-> <<>>]
    /\ last' = [NoResult EXCEPT !.op = "clear"]
    /\ UNCHANGED <<heap, wall>>
    /\ MemoryFrame

\* [...this.buffer]: a new array holding the same records
SpreadCopy(buffer) == [array |-> "copy", items |-> buffer]

\* MemoryHandler.getRecords()
getRecords ==
    /\ last' = [NoResult EXCEPT !.op = "getRecords",
                                !.array = SpreadCopy(mem.buffer).array,
                                !.items = SpreadCopy(mem.buffer).items]
    /\ UNCHANGED <<mem, seen, heap, wall>>
    /\ MemoryFrame

\* the caller empties the array getRecords handed out (records.length = 0)
ModifyReturned ==
    /\ last.op = "getRecords"
    /\ last.items # <<>>
    /\ last' = [last EXCEPT !.op = "modified", !.items = <<>>]
    /\ mem' = IF last.array = "buffer" THEN [mem EXCEPT !.buffer = <<>>]
              ELSE mem
    /\ UNCHANGED <<seen, heap, wall>>
    /\ MemoryFrame

\* new JSONFormatter().format(record) on the i-th buffered record
JSONFormatterFormat(i) ==
    /\ last' = [NoResult EXCEPT !.op = "format", !.arg = i,
                                !.line = format(mem.buffer[i], heap)]
    /\ UNCHANGED <<mem, seen, heap, wall>>
    /\ MemoryFrame

InitMemory ==
    /\ DispatchAtRest
    /\ disk = [dir |-> <<>>, ino |-> <<>>]
    /\ streams = <<>>
    /\ fh = [kind |-> "none"]
    /\ registry = <<>>
    /\ loggers = <<NewLogger(1, <<"app">>)>>
    /\ wall = 0
    /\ seen = [since |-> <<>>]
    /\ last = NoResult
    /\ heap \in [1..NumObjects -> {ObjVal(f) : f \in ContextInputs}]
    /\ \E capacity \in CapacityInputs :
          mem = [kind |-> "memory", capacity |-> capacity, buffer |-> <<>>]

NextMemory ==
    \/ \E lv \in {DEBUG, INFO}, arg \in 0..NumObjects : MemoryInfo(lv, arg)
    \/ \E hasError \in BOOLEAN, arg \in 0..NumObjects :
          MemoryException(hasError, arg)
    \/ clear
    \/ getRecords
    \/ ModifyReturned
    \/ \E i \in 1..Len(mem.buffer) : JSONFormatterFormat(i)

SpecMemory == InitMemory /\ [][NextMemory]_vars

(* ---- handlers.js: ConsoleHandler ---- *)

\* ConsoleHandler.emit(record): the handler after the call and the stream
\* the line was written to
ConsoleHandlerEmit(h, level) ==
    LET stream == IF h.stream = "null"
                  THEN IF level >= 3 THEN "stderr" ELSE "stdout"
                  ELSE h.stream
    IN [handler |-> [h EXCEPT !.stream = stream],
        written |-> [level |-> level, stream |-> stream]]

\* new ConsoleHandler(): stream = null
InitConsole ==
    /\ LoggersAtRest
    /\ NoLib
    /\ disk = [dir |-> <<>>, ino |-> <<>>]
    /\ streams = <<>>
    /\ wall = 0
    /\ fh = [kind |-> "console", stream |-> "null"]
    /\ seen = [out |-> <<>>]

\* handler.emit(record) on the console handler, for a record of the level
ConsoleEmit(level) ==
    /\ Len(seen.out) < MaxEmits
    /\ LET r == ConsoleHandlerEmit(fh, level)
       IN /\ fh' = r.handler
          /\ seen' = [out |-> Append(seen.out, r.written)]
    /\ UNCHANGED <<disk, streams, wall>>
    /\ UNCHANGED <<loggerVars, libVars>>

NextConsole == \E level \in LogLevel : ConsoleEmit(level)

SpecConsole == InitConsole /\ [][NextConsole]_vars

(* ---- properties ---- *)

\* the state right after a log call (debug .. critical, exception) returned
Logged == pc = "returned" /\ last.op \in {"log", "exception"}

\* the call kept to the input contract: a string message, a context object
ValidCall ==
    /\ last.call.msg.isStr
    /\ \A i \in 1..Len(last.call.args) : last.call.args[i].kind # "null"

\* the loggers from l up to its root
RECURSIVE Chain(_)
Chain(l) ==
    IF loggers[l].parent = Null THEN <<l>>
    ELSE <<l>> \o Chain(loggers[l].parent)

Root(l) == Chain(l)[Len(Chain(l))]
Count(es, h) == Cardinality({j \in 1..Len(es) : es[j].handler = h})
Occurrences(hs, h) == Cardinality({i \in 1..Len(hs) : hs[i] = h})

\* every logger below the root on l's chain propagates
Propagating(l) ==
    \A i \in 1..(Len(Chain(l)) - 1) : loggers[Chain(l)[i]].propagate

\* C1: a call below the Logger's threshold builds no record and emits to no
\* handler at all; a call at or above the threshold reaches every handler
\* of the Logger's own list with a record of that level.
C1_LevelGate ==
    Logged =>
        LET l == last.logger
            hs == loggers[l].handlers
        IN /\ last.level < loggers[l].level => built = 0 /\ emits = <<>>
           /\ last.level >= loggers[l].level /\ ValidCall =>
                 \A i \in 1..Len(hs) :
                    \E j \in 1..Len(emits) :
                       /\ emits[j].handler = hs[i]
                       /\ emits[j].record.level = last.level

C1_Witness ==
    /\ Logged
    /\ Len(loggers[last.logger].handlers) > 0
    /\ last.level = INFO
    /\ loggers[last.logger].level = ERROR
    /\ emits = <<>>

\* C2: a message that passed the gate of a propagating child is observed
\* exactly once by a sink attached only to the root, whatever the levels of
\* the root and of the loggers in between.
C2_RootSinkSeesOnce ==
    Logged /\ ValidCall =>
        LET l == last.logger
        IN loggers[l].parent # Null /\ Propagating(l)
           /\ last.level >= loggers[l].level =>
              \A h \in Handlers :
                 (/\ Occurrences(loggers[Root(l)].handlers, h) = 1
                  /\ \A i \in 1..(Len(Chain(l)) - 1) :
                        h \notin Range(loggers[Chain(l)[i]].handlers))
                 => Count(emits, h) = 1

\* C3: for a call that passed the leaf's gate, every sink attached to a
\* Logger of the leaf-to-root chain receives the record exactly once,
\* sinks inherited at getChild included.
C3_EachSinkOnce ==
    Logged /\ ValidCall =>
        LET l == last.logger
        IN Propagating(l) /\ last.level >= loggers[l].level
           /\ (\A i \in 1..Len(Chain(l)), h \in Handlers :
                  Occurrences(loggers[Chain(l)[i]].handlers, h) <= 1) =>
              \A i \in 1..Len(Chain(l)) :
                 \A h \in Range(loggers[Chain(l)[i]].handlers) :
                    Count(emits, h) = 1

\* C4: what an ancestor's sinks receive is the one record built by the
\* logging child: its name, message, context and timestamp; no second
\* record is built.
C4_OriginalRecord ==
    Logged =>
        /\ built <= 1
        /\ \A j \in 1..Len(emits) :
              /\ emits[j].record = emits[1].record
              /\ emits[j].record.name = loggers[last.logger].name

\* C5: a sink whose level filter is F never emits a record below F.
C5_SinkLevelFilter ==
    Logged =>
        \A j \in 1..Len(emits) :
           handlerLevel[emits[j].handler] # Null =>
              emits[j].record.level >= handlerLevel[emits[j].handler]

\* the handlers whose emit a call at level lv on l runs, in order: the own
\* list, then the lists of the ancestors that propagation reaches
RECURSIVE Reached(_, _)
Reached(l, lv) ==
    IF lv < loggers[l].level THEN <<>>
    ELSE loggers[l].handlers \o
         (IF loggers[l].propagate /\ loggers[l].parent # Null
          THEN Reached(loggers[l].parent, lv) ELSE <<>>)

\* C6: when a sink's emit raises, every sink after it on the same Logger
\* and every sink of the ancestors that propagation reaches still gets the
\* record, the failure is reported, and the call returns normally.
C6_FaultIsolation ==
    Logged /\ (\E j \in 1..Len(emits) : emits[j].threw) =>
        /\ Len(emits) = Len(Reached(last.logger, last.level))
        /\ \A j \in 1..Len(emits) :
              emits[j].handler = Reached(last.logger, last.level)[j]
        /\ Len(diag) = Cardinality({j \in 1..Len(emits) : emits[j].threw})
        /\ ~raised

C6_Witness ==
    /\ Logged
    /\ built = 2
    /\ \E i, j, k \in 1..Len(emits) :
          /\ i < j /\ j < k
          /\ emits[i].threw
          /\ ~emits[j].threw
          /\ emits[j].record.name = emits[i].record.name
          /\ emits[k].record.name # emits[i].record.name

\* C7: no log call raises into its caller, and no failure of the logging
\* subsystem leaves it as an uncaught exception.
C7_NeverRaises == ~raised /\ ~uncaught

\* C8: a cached child is never replaced or evicted, and getChild returns
\* the cached instance.
C8_ChildIdentity ==
    [][/\ \A p \in DOMAIN loggers, k \in Keys :
             loggers[p].children[k] # Null =>
                loggers'[p].children[k] = loggers[p].children[k]
       /\ pc = "idle" /\ last'.op = "getChild" =>
             LET p == last'.logger
                 k == last'.call.msg.toks[1]
             IN /\ last'.ret = loggers'[p].children[k]
                /\ loggers[p].children[k] # Null =>
                      last'.ret = loggers[p].children[k]]_vars

C8_Witness ==
    /\ pc = "returned"
    /\ last.op = "getChild"
    /\ last.ret < Len(loggers)
    /\ nOps >= 3

\* C9: a new child has the parent's level and handler list of that moment;
\* afterwards setLevel, addHandler, removeHandler and clearHandlers on one
\* Logger change the level and the handler list of no other Logger.
C9_SnapshotAtCreation ==
    [][/\ Len(loggers') > Len(loggers) =>
             LET c == Len(loggers')
                 p == loggers'[c].parent
             IN /\ loggers'[c].level = loggers[p].level
                /\ loggers'[c].handlers = loggers[p].handlers
       /\ pc = "idle" /\ last'.op \in {"setLevel", "addHandler",
                                       "removeHandler", "clearHandlers"} =>
             \A x \in DOMAIN loggers :
                x # last'.logger =>
                   /\ loggers'[x].level = loggers[x].level
                   /\ loggers'[x].handlers = loggers[x].handlers]_vars

C9_Witness ==
    /\ pc = "returned"
    /\ last.op \in {"addHandler", "removeHandler", "clearHandlers"}
    /\ \E c \in DOMAIN loggers :
          /\ loggers[c].parent = last.logger
          /\ loggers[c].handlers # loggers[last.logger].handlers
          /\ loggers[c].handlers # <<>>

\* C10: every cached child is named parent.name + "." + key and points
\* back to the Logger that caches it.
C10_ChildNameAndParent ==
    \A p \in DOMAIN loggers, k \in Keys :
       LET c == loggers[p].children[k]
       IN c # Null =>
             /\ loggers[c].name = loggers[p].name \o <<".", k>>
             /\ loggers[c].parent = p

C10_Witness ==
    \E p \in DOMAIN loggers, k \in Keys :
       /\ loggers[p].parent # Null
       /\ loggers[p].children[k] # Null

\* the place on the chain of last.logger of the Logger that built e's record
OwnerPos(e) ==
    CHOOSE i \in 1..Len(Chain(last.logger)) :
       loggers[Chain(last.logger)[i]].name = e.record.name

\* the handlers invoked with a record built by logger x, in invocation order
InvokedBy(x) ==
    LET seg == SelectSeq(emits, LAMBDA e : e.record.name = loggers[x].name)
    IN [j \in 1..Len(seg) |-> seg[j].handler]

\* C11: addHandler puts a handler behind the ones added before it, and one
\* log call invokes a Logger's handlers in that order, all of them before
\* the first handler of its parent, and so on towards the root.
C11_InvocationOrder ==
    [][/\ pc = "idle" /\ last'.op = "addHandler" =>
             \E h \in Handlers :
                loggers'[last'.logger].handlers =
                   Append(loggers[last'.logger].handlers, h)
       /\ (Logged =>
             /\ \A j, k \in 1..Len(emits) :
                   j < k => OwnerPos(emits[j]) <= OwnerPos(emits[k])
             /\ \A i \in 1..Len(Chain(last.logger)) :
                   LET x == Chain(last.logger)[i]
                   IN InvokedBy(x) # <<>> =>
                         InvokedBy(x) = loggers[x].handlers)']_vars

C11_Witness ==
    /\ Logged
    /\ Len(emits) >= 3
    /\ emits[1].handler # emits[2].handler
    /\ emits[1].record.name = emits[2].record.name
    /\ emits[Len(emits)].record.name # emits[1].record.name

(* ---- properties of the rotating file handler ---- *)

\* the places (file, position) where record id r has been written
WrittenAt(r) ==
    {<<f, i>> \in (DOMAIN disk.ino) \X (1..MaxEmits) :
        i <= Len(disk.ino[f].data) /\ disk.ino[f].data[i].id = r}

\* the streams that still queue record id r
QueuedAt(r) ==
    {s \in DOMAIN streams :
        \E i \in 1..Len(streams[s].queue) : streams[s].queue[i].id = r}

\* C12: a record whose emit found the byte counter at or above maxBytes is
\* written after rotate() ran: it opens a fresh current file (it is the
\* first record there, so it is not in the file renamed to path.1), and no
\* record is ever in two files or written twice.
C12_RotateBeforeWrite ==
    \A r \in 1..seen.emitted :
       /\ Cardinality(WrittenAt(r)) + Cardinality(QueuedAt(r)) = 1
       /\ r \in seen.rot => \A w \in WrittenAt(r) : w[2] = 1

C12_Witness ==
    /\ existsSync(disk, Suffixed(1))
    /\ existsSync(disk, Path)
    /\ \E r \in seen.rot :
          /\ WrittenAt(r) = {<<disk.dir[Path], 1>>}
          /\ \A i \in 1..Len(disk.ino[disk.dir[Suffixed(1)]].data) :
                disk.ino[disk.dir[Suffixed(1)]].data[i].id < r

\* C13: the byte counter compared with maxBytes is the formatted size of
\* everything emitted to the current file, so an emit rotates exactly when
\* the size emitted before it had reached maxBytes.
C13_CounterIsEmittedSize ==
    /\ fh.file # 0 =>
          streams[fh.file].bytesWritten = streams[fh.file].emitted
    /\ seen.emitted > 0 => (seen.rotated <=> seen.prev >= fh.maxBytes)

\* C14: the numbered backups are among path.1 .. path.backupCount, and all
\* of them exist once more than backupCount rotations have happened and
\* maxFiles allows them.
C14_BackupNames ==
    /\ \A n \in _getMatchingFiles(disk) : n[1] \in 1..fh.backupCount
    /\ (Cardinality(seen.rot) > fh.backupCount
           /\ fh.maxFiles >= fh.backupCount) =>
          \A i \in 1..fh.backupCount : existsSync(disk, Suffixed(i))

\* C15: after a size rotation at most maxFiles files match path.*, every
\* file kept was modified no earlier than every file removed, and with
\* backupCount >= maxFiles exactly maxFiles backups remain once maxFiles
\* rotations have happened.
C15_RetentionCap ==
    /\ Cardinality(_getMatchingFiles(disk)) <= fh.maxFiles
    /\ seen.rotated => \A r \in seen.removed, k \in seen.kept : r <= k
    /\ (fh.backupCount >= fh.maxFiles
           /\ Cardinality(seen.rot) >= fh.maxFiles) =>
          Cardinality(_getMatchingFiles(disk)) = fh.maxFiles

C15_Witness ==
    /\ seen.rotated
    /\ fh.maxFiles < fh.backupCount
    /\ seen.removed # {}
    /\ \E r \in seen.removed, k \in seen.kept : r < k

\* C16: with backupCount = 0 no numbered backup exists after any number
\* of rotations.
C16_NoBackupsAtZero ==
    fh.backupCount = 0 => _getMatchingFiles(disk) = {}

(* ---- properties of the timed rotating file handler ---- *)

\* C17: with when = 'midnight', an emission rotates exactly when its
\* record's calendar date differs from that of the record emitted just
\* before it, whatever the wall clock read at construction or at the calls.
C17_MidnightByRecordDates ==
    [][(/\ fh.when = "midnight"
        /\ seen.ts # Null
        /\ seen'.emitted = seen.emitted + 1) =>
          (seen'.rotated <=>
              toDateString(seen'.ts) # toDateString(seen.ts))]_vars

\* C18: the emit of a record stamped t rotates exactly when, for
\* 'midnight', t and lastRotation lie on different calendar dates, for
\* 'hour', t - lastRotation is at least interval hours, for 'minute', at
\* least interval minutes.
C18_ShouldRotate ==
    [][seen'.emitted = seen.emitted + 1 =>
          (seen'.rotated <=>
              CASE fh.when = "midnight" ->
                      seen'.ts \div DayMs # fh.lastRotation \div DayMs
                [] fh.when = "hour" ->
                      seen'.ts - fh.lastRotation >= fh.interval * 3600 * 1000
                [] fh.when = "minute" ->
                      seen'.ts - fh.lastRotation >= fh.interval * 60 * 1000)
      ]_vars

C18_Witness ==
    /\ fh.when = "minute"
    /\ fh.interval = 1
    /\ seen.rotated
    /\ seen.rot = {seen.emitted}
    /\ seen.ts = 60000
    /\ fh.lastRotation > seen.ts

\* C19: after a time rotation at most min(backupCount, maxFiles) backups
\* path.<timestamp> exist, and every backup kept was modified no earlier
\* than every backup removed.
C19_TimedRetention ==
    /\ Cardinality(_getMatchingFiles(disk)) <= fh.backupCount
    /\ Cardinality(_getMatchingFiles(disk)) <= fh.maxFiles
    /\ \A k \in seen.kept, r \in seen.removed : k >= r

C19_Witness ==
    /\ seen.rotated
    /\ \E k \in seen.kept, r \in seen.removed : k > r
    /\ _getMatchingFiles(disk) # {}

\* the rotations that had run when record id r was written to its stream
Generation(r) == Cardinality({x \in seen.rot : x <= r})

\* C20: a file never holds records from both sides of a rotation: what was
\* queued before rotate() ran stays out of the file opened after it, and
\* what is emitted after it stays out of the file it renamed.
C20_RotationIsCritical ==
    \A f \in DOMAIN disk.ino :
       \A i, j \in 1..Len(disk.ino[f].data) :
          Generation(disk.ino[f].data[i].id) =
             Generation(disk.ino[f].data[j].id)

(* ---- properties of the registry ---- *)

\* C21: between two closes every call that returns a Logger for a name
\* returns the same Logger object, and getLogger of a name that is not
\* registered returns null.
C21_OneInstancePerName ==
    /\ \A n \in LoggerNames : Cardinality(seen.issued[n]) <= 1
    /\ (last.op = "getLogger" /\ registry[last.name] = Null) =>
          last.ret = Null

\* C22: a Logger newly created by createLogger(name, {level, ..}) or
\* quickLogger(name, level) has the level of that name as its threshold.
C22_LevelAsRequested ==
    (last.created /\ last.op \in {"createLogger", "quickLogger"}) =>
       loggers[last.ret].level = levelMap[last.level]

\* C23: after closeAllLoggers() no name is registered and every handler
\* with a close method of every Logger that was registered is closed.
C23_CloseAllClosesAll ==
    last.op = "closeAllLoggers" =>
       /\ \A n \in LoggerNames : registry[n] = Null
       /\ \A x \in DOMAIN loggers :
             \A h \in Range(loggers[x].handlers) :
                HasClose(heap[h]) => ~heap[h].file

\* C24: exception(message, error, context), given a context object or none,
\* that passes the gate dispatches exactly one record, at ERROR, whose
\* context holds exc_info = true, the rendered stack as exc_text, and every
\* key of the caller's context.
C24_ExceptionRecord ==
    (Logged /\ last.op = "exception" /\ ValidCall
       /\ ~Gate(ERROR, loggers[last.logger].level)) =>
        /\ ~raised
        /\ built = 1
        /\ \A j \in 1..Len(emits) :
              LET extra == emits[j].record.extra
                  given == IF Len(last.call.args) > 0
                           THEN last.call.args[1].fields ELSE {}
              IN /\ emits[j].record.level = ERROR
                 /\ <<"exc_info", "true">> \in extra.fields
                 /\ \E e \in BOOLEAN :
                       <<"exc_text", StackOf(e)>> \in extra.fields
                 /\ given \subseteq extra.fields

\* what a reader of a record sees: its fields and the context it refers to
Observed(record, objects) ==
    [name |-> record.name, level |-> record.level,
     message |-> record.message, timestamp |-> record.timestamp,
     context |-> ExtraOf(record, objects)]

\* C25: a record held in the MemoryHandler's buffer reads the same after
\* every later operation of the library: name, level, message, timestamp
\* and context.
C25_RecordNeverMutated ==
    [][\A i \in 1..Len(mem.buffer), j \in 1..Len(mem'.buffer) :
          mem.buffer[i].timestamp = mem'.buffer[j].timestamp =>
             Observed(mem.buffer[i], heap) = Observed(mem'.buffer[j], heap')
      ]_vars

\* C26: parsing the line JSONFormatter.format made of a record recovers the
\* record's level name, its message and every context key with its value.
C26_JsonRoundTrip ==
    last.op = "format" =>
       LET record == mem.buffer[last.arg]
           parsed == {<<m[1], JSONparse(m[2])>> : m \in last.line}
       IN /\ <<"level", <<"str", getLogLevelName(record.level)>>>> \in parsed
          /\ <<"message", <<"str", record.message>>>> \in parsed
          /\ ExtraOf(record, heap) \subseteq parsed

Flushed == \A s \in DOMAIN streams : streams[s].fd # 0 /\ streams[s].queue = <<>>

\* C28: when log calls follow a close() of the FileHandler, every record
\* handed to it, before the close and after, is in its file once the
\* streams have written what they hold.
C28_LogAfterClose ==
    (seen.reopened /\ Flushed) =>
       \A id \in 1..seen.emitted :
          \E i \in 1..Len(disk.ino[disk.dir[Path]].data) :
             disk.ino[disk.dir[Path]].data[i].id = id

\* the step is an emit of the size handler that rotated, backupCount >= 1
SizeRotation ==
    /\ seen'.emitted # seen.emitted
    /\ seen'.rotated
    /\ fh.backupCount >= 1

\* what a rotation that shifts by one leaves: path.(i+1) is the file path.i
\* was, path.1 the file the current path was, the file path.N was has no
\* name left, the current path is free for an empty file and the handler's
\* new stream has counted no byte
ShiftedByOne ==
    /\ \A i \in 1..(fh.backupCount - 1) :
          existsSync(disk, Suffixed(i)) =>
             /\ existsSync(disk', Suffixed(i + 1))
             /\ disk'.dir[Suffixed(i + 1)] = disk.dir[Suffixed(i)]
    /\ existsSync(disk, Path)
    /\ existsSync(disk', Suffixed(1))
    /\ disk'.dir[Suffixed(1)] = disk.dir[Path]
    /\ existsSync(disk, Suffixed(fh.backupCount)) =>
          disk.dir[Suffixed(fh.backupCount)] \notin Range(disk'.dir)
    /\ ~existsSync(disk', Path)
    /\ fh'.file # 0
    /\ streams'[fh'.file].bytesWritten = 0

\* C29 as stated: every completed size rotation with backupCount >= 1
\* shifts the backups by one and leaves an empty current file, counter 0.
C29_ShiftByOne == [][SizeRotation => ShiftedByOne]_vars

\* C29, amended: the same, for a handler whose maxFiles is not below its
\* backupCount, so that the retention step removes none of the backups.
C29_ShiftByOneKept ==
    [][(SizeRotation /\ fh.maxFiles >= fh.backupCount) => ShiftedByOne]_vars

\* a third rotation with two backups kept: path.1 has moved to path.2 and
\* the file path.2 was has been discarded
C29_Witness ==
    /\ seen.rotated
    /\ fh.backupCount = 2
    /\ fh.maxFiles >= fh.backupCount
    /\ Cardinality(seen.rot) >= 3
    /\ existsSync(disk, Suffixed(2))

\* C30: an emit whose rotate() throws is reported and does not raise into
\* the caller, it loses no record but its own, and afterwards the sink still
\* enforces its threshold: an emit that finds maxBytes or more in the
\* current file rotates.
C30_FailedRotation ==
    [][/\ Len(diag') > Len(diag) =>
             /\ ~raised' /\ ~uncaught'
             /\ \A s \in DOMAIN streams : streams'[s].queue = streams[s].queue
             /\ disk'.ino = disk.ino
       /\ (/\ seen'.emitted # seen.emitted
           /\ existsSync(disk, Path)
           /\ Len(Bytes(disk.ino[disk.dir[Path]].data)) >= fh.maxBytes)
          => (seen'.rotated \/ Len(diag') > Len(diag))]_vars

\* what an invocation of emit leaves at the sink's destination:
\* this.format(record) runs before the write and outside any try, so the
\* formatter's exception ends emit before anything is written
Output(e) == IF e.threw THEN "nothing" ELSE "formatted"

\* C31: when the formatter of a sink raises, that sink still writes a raw
\* rendering of the record, and the sinks after it and those of the
\* ancestors get the record.
C31_RawRendering ==
    Logged =>
        /\ \A j \in 1..Len(emits) : Output(emits[j]) \in {"formatted", "raw"}
        /\ (\E j \in 1..Len(emits) : emits[j].threw) =>
              \A h \in Range(Reached(last.logger, last.level)) :
                 \E j \in 1..Len(emits) : emits[j].handler = h

\* C32: a ConsoleHandler constructed without a stream writes every ERROR or
\* CRITICAL record to stderr and every record of a lower level to stdout.
C32_StreamByLevel ==
    \A i \in 1..Len(seen.out) :
       seen.out[i].stream = IF seen.out[i].level >= ERROR THEN "stderr"
                            ELSE "stdout"

\* handler h is in the list of a child and in the list of its parent
SharedHandler(h) ==
    \E c \in DOMAIN loggers :
       /\ loggers[c].parent # Null
       /\ h \in Range(loggers[c].handlers)
       /\ h \in Range(loggers[loggers[c].parent].handlers)

\* C33: the list a new child gets at getChild holds the parent's own
\* handler objects, and a level set on a shared handler afterwards is
\* honoured by the emissions of the parent and of the child alike.
C33_SharedHandlers ==
    [][/\ (last'.op = "getChild" /\ Len(loggers') > Len(loggers)) =>
             loggers'[last'.ret].handlers = loggers[last'.logger].handlers
       /\ (pc' = "returned" /\ last'.op \in {"log", "exception"}) =>
             \A j \in 1..Len(emits') :
                LET h == emits'[j].handler
                IN (SharedHandler(h) /\ handlerLevel[h] # Null) =>
                      emits'[j].record.level >= handlerLevel[h]]_vars

\* C34: a log call on a Logger whose propagate is false builds one record
\* at most and emits only to handlers of that Logger's own list; a handler
\* that only an ancestor holds gets nothing.
C34_NoPropagation ==
    (Logged /\ ~loggers[last.logger].propagate) =>
        /\ built <= 1
        /\ Len(emits) <= Len(loggers[last.logger].handlers)
        /\ \A j \in 1..Len(emits) :
              emits[j].handler \in Range(loggers[last.logger].handlers)

\* a child with propagate = false logged past its gate while its parent
\* held a handler the child's list does not have
C34_Witness ==
    /\ Logged
    /\ built = 1
    /\ ~loggers[last.logger].propagate
    /\ loggers[last.logger].parent # Null
    /\ \E h \in Range(loggers[loggers[last.logger].parent].handlers) :
          h \notin Range(loggers[last.logger].handlers)

\* the record ids a named file holds, in file order
IdsIn(n) ==
    [i \in 1..Len(disk.ino[disk.dir[n]].data) |->
        disk.ino[disk.dir[n]].data[i].id]

\* file f comes before file g in path.N, ..., path.1, path
Before(f, g) ==
    /\ f # Path
    /\ g = Path \/ f[1] > g[1]

\* C35: reading path.N, ..., path.1 and the current file one after the
\* other gives records in emission order, none of them twice.
C35_DiskOrder ==
    /\ \A n \in DOMAIN disk.dir :
          \A i, j \in 1..Len(IdsIn(n)) : i < j => IdsIn(n)[i] < IdsIn(n)[j]
    /\ \A f, g \in DOMAIN disk.dir :
          Before(f, g) =>
             \A i \in 1..Len(IdsIn(f)), j \in 1..Len(IdsIn(g)) :
                IdsIn(f)[i] < IdsIn(g)[j]

\* C36: a time rotation that renames a non-empty current file gives the
\* backup a name no file on disk has, so it overwrites no earlier backup.
C36_FreshBackupName ==
    [][(/\ seen'.emitted # seen.emitted
        /\ seen'.rotated
        /\ existsSync(disk, Path)
        /\ disk.ino[disk.dir[Path]].data # <<>>)
       => ~existsSync(disk, Suffixed(_formatTimestamp(fh.lastRotation)))]_vars

\* C37: the current file of the size handler never holds more than
\* maxBytes plus the size of one of its records, the one that crossed the
\* threshold.
C37_CurrentFileBounded ==
    existsSync(disk, Path) =>
       LET data == disk.ino[disk.dir[Path]].data
       IN \/ data = <<>>
          \/ \E i \in 1..Len(data) :
                Len(Bytes(data)) <= fh.maxBytes + data[i].size

\* C38: every parent link leads to a Logger created earlier, so the links
\* form a forest, and a log call builds at most one record for each Logger
\* on the chain from the leaf to its root.
C38_Forest ==
    /\ \A l \in DOMAIN loggers :
          loggers[l].parent = Null
             \/ (loggers[l].parent \in DOMAIN loggers /\ loggers[l].parent < l)
    /\ Logged => built <= Len(Chain(last.logger))

\* a log call on a grandchild went up the whole chain of three Loggers
C38_Witness ==
    /\ Logged
    /\ Len(Chain(last.logger)) = 3
    /\ built = 3

\* C39: the retention step of a rotating sink never deletes the file of
\* another sink whose name starts with this sink's file name and a dot, nor
\* the sink's own current file.
C39_RetentionOwnBackups ==
    [][/\ existsSync(disk, OtherSinkFile) => existsSync(disk', OtherSinkFile)
       /\ (seen'.emitted # seen.emitted /\ existsSync(disk, Path)
             /\ ~seen'.rotated) => existsSync(disk', Path)]_vars

====
